---- MODULE Spec2Model ----
(***************************************************************************)
(* The upload / submit / poll / result flow of the Ankibyte frontend.      *)
(*                                                                         *)
(* Two variants of the main view exist in the repository and both are      *)
(* modelled; the variable "variant" says which one a behaviour runs:       *)
(*   "ts"  src/src/App.tsx       (results view, 1 s polling)               *)
(*   "js"  src/unnamed/part_001  (no results view, 2 s polling)            *)
(* The results view of "ts" holds the scatter plot of src/unnamed/part_002 *)
(* (EmbeddingVisualization), whose selection is selectedCluster.           *)
(*                                                                         *)
(* A text is a sequence of fragments.  Tag prefixes and file names are     *)
(* sequences of UTF-16 code units (one-character strings), messages are    *)
(* sequences of longer fragments; concatenation is \o.                     *)
(* A JavaScript value that may be null/undefined is a set: {} is null,     *)
(* {v} is the value v.                                                     *)
(***************************************************************************)
EXTENDS Integers, Sequences, FiniteSets, TLC

\* ------------------------------------------------------------------ bounds
\* Submissions (POSTs) one behaviour may issue: under Spec, which draws the
\* user's and the backend's inputs from the full sets; under FlowSpec, which
\* draws them from FlowInputs; and under RaceSpec, which draws them from
\* RaceInputs.
MaxSubmits == 1
MaxFlowSubmits == 2
MaxRaceSubmits == 3
\* Submissions under ViewSpec, which adds the unmount of the view and the
\* clicks on the chart to FlowSpec's events.
MaxViewSubmits == 1
\* Submissions under LiveSpec, which states the fairness of the timers and of
\* the backend.
MaxLiveSubmits == 1
\* Status requests that may be in flight at the same time, all jobs together.
MaxInFlight == 2

\* ------------------------------------------------------------ JS values
Null == {}
Some(v) == {v}
Val(o) == CHOOSE v \in o : TRUE

\* JSON scalars as the backend may send them: a number or a string.
Num(k) == [t |-> "num", n |-> k, s |-> <<>>]
Str(x) == [t |-> "str", n |-> 0, s |-> x]

Digits == <<"0", "1", "2", "3", "4", "5", "6", "7", "8", "9">>
IsDigit(c) == \E i \in 1..10 : Digits[i] = c
DigitVal(c) == (CHOOSE i \in 1..10 : Digits[i] = c) - 1

RECURSIVE ParseDigits(_, _)
\* The leading run of decimal digits of s, as a number (acc so far).
ParseDigits(s, acc) ==
    IF s = <<>> \/ ~IsDigit(Head(s)) THEN acc
    ELSE ParseDigits(Tail(s), 10 * acc + DigitVal(Head(s)))

\* `x || 0` : a missing value, the number 0 and the empty string are falsy.
OrZero(o) ==
    IF o = Null THEN Num(0)
    ELSE IF Val(o) = Num(0) \/ Val(o) = Str(<<>>) THEN Num(0)
    ELSE Val(o)

\* parseFloat on the values the model sends: a number is itself, a string of
\* digits is the number it spells.
parseFloat(v) == IF v.t = "num" THEN v.n ELSE ParseDigits(v.s, 0)

\* ------------------------------------------------------------ constants
Variants == {"ts", "js"}

embeddingModels ==
    {"text-embedding-3-small", "text-embedding-3-large", "text-embedding-ada-002"}
DefaultModel == "text-embedding-3-small"

ExtApkg == <<".", "a", "p", "k", "g">>
ExtPdf == <<".", "p", "d", "f">>

MsgBadDeck == <<"Please upload a valid Anki deck file (.apkg)">>
MsgBadPdf == <<"Please upload a PDF study material">>
MsgNeedFiles == <<"Please upload both an Anki deck and study material">>
MsgNeedTag == <<"Please enter a tag prefix for your cards">>
MsgSuccess == <<"Processing completed successfully!">>
MsgProcessingFailed == <<"Processing failed">>
MsgServerError == <<"Server error: ">>
MsgFetchFailed == <<"Failed to fetch">>
MsgJsonError == <<"Unexpected token < in JSON at position 0">>
MsgNotJson == <<"Expected JSON response but got ", "text/html">>
MsgStatusFailed == <<"Failed to fetch job status">>
PhaseInitializing == <<"Initializing">>

MiB == 1048576

\* ------------------------------------------------------------ the inputs
\* Files the user may pick: name (code units) and size in bytes.
Files ==
    { [name |-> <<"d", ".", "a", "p", "k", "g">>, size |-> MiB],
      [name |-> <<"d", ".", "t", "x", "t">>, size |-> MiB],
      [name |-> <<"d", ".", "A", "P", "K", "G">>, size |-> MiB],
      [name |-> <<"n", ".", "p", "d", "f">>, size |-> MiB],
      [name |-> <<"n", ".", "p", "d", "f", "x">>, size |-> 1] }

Slots == {"anki", "study"}

\* What the user may have typed into the tag field.
TagInputs ==
    { <<>>,
      <<"M", "y", " ", "T", "a", "g", "!">>,
      <<"a", "_", "9">> }

Lower == {"a", "b", "c", "d", "e", "f", "g", "h", "i", "j", "k", "l", "m",
          "n", "o", "p", "q", "r", "s", "t", "u", "v", "w", "x", "y", "z"}
Upper == {"A", "B", "C", "D", "E", "F", "G", "H", "I", "J", "K", "L", "M",
          "N", "O", "P", "Q", "R", "S", "T", "U", "V", "W", "X", "Y", "Z"}
Digit == {"0", "1", "2", "3", "4", "5", "6", "7", "8", "9"}

LowerCase == <<"a", "b", "c", "d", "e", "f", "g", "h", "i", "j", "k", "l", "m",
               "n", "o", "p", "q", "r", "s", "t", "u", "v", "w", "x", "y", "z">>
UpperCase == <<"A", "B", "C", "D", "E", "F", "G", "H", "I", "J", "K", "L", "M",
               "N", "O", "P", "Q", "R", "S", "T", "U", "V", "W", "X", "Y", "Z">>

\* type RelevanceType = 'high' | 'medium' | 'low' | 'document'
RelevanceTypes ==
    { <<"h", "i", "g", "h">>, <<"m", "e", "d", "i", "u", "m">>, <<"l", "o", "w">>,
      <<"d", "o", "c", "u", "m", "e", "n", "t">> }

\* The bands of the card points: (['high', 'medium', 'low'] as const)
CardBands == RelevanceTypes \ {<<"d", "o", "c", "u", "m", "e", "n", "t">>}

\* ------------------------------------------------------- pure functions
\* String.prototype.endsWith
endsWith(s, suffix) ==
    /\ Len(s) >= Len(suffix)
    /\ SubSeq(s, Len(s) - Len(suffix) + 1, Len(s)) = suffix

\* Sanitize without the g flag: only the first match is replaced.
Sanitize_FirstOnly(s) ==
    [i \in 1..Len(s) |->
        IF s[i] \in Lower \cup Upper \cup Digit
           \/ \E j \in 1..(i - 1) : s[j] \notin Lower \cup Upper \cup Digit
        THEN s[i] ELSE "_"]

\* value.replace(/[^a-zA-Z0-9]/g, "_")
Sanitize(s) ==
    [i \in 1..Len(s) |-> IF s[i] \in Lower \cup Upper \cup Digit THEN s[i] ELSE "_"]

\* String.prototype.toLowerCase, on ASCII text
toLowerCase(s) ==
    [i \in 1..Len(s) |->
        IF s[i] \in Upper THEN LowerCase[CHOOSE k \in 1..26 : UpperCase[k] = s[i]]
        ELSE s[i]]

\* String.prototype.toUpperCase, on ASCII text
toUpperCase(s) ==
    [i \in 1..Len(s) |->
        IF s[i] \in Lower THEN UpperCase[CHOOSE k \in 1..26 : LowerCase[k] = s[i]]
        ELSE s[i]]

\* The name of a band's Scatter series, which is its legend entry's value:
\* "DOCUMENT", and relevance.toUpperCase() for the card bands.
SeriesName(relevance) == toUpperCase(relevance)

\* Math.ceil((file.size / (1024 * 1024)) * 30)
EstimateSeconds(size) == (size * 30 + MiB - 1) \div MiB

VARIABLES
    variant,            \* which variant of the view is running
    ankiFile,           \* useState<File | null>
    studyMaterial,      \* useState<File | null>
    processing,         \* useState(false)
    progress,           \* useState(0)
    error,              \* useState<string | null>
    success,            \* useState<string | null>
    estimatedTime,      \* useState<number | null>
    jobId,              \* useState<string | null>
    currentPhase,       \* useState<string | null>
    customTag,          \* useState("")
    selectedModel,      \* useState("text-embedding-3-small")
    processingResults,  \* useState<ProcessingResponse | null>   (ts)
    showResults,        \* useState(false)                        (ts)
    subs,               \* one record per handleSubmit call that passed validation
    pendingResets,      \* setTimeout(resetState, 3000) calls not yet run (js)
    mounted,            \* the view is mounted (user events reach it)
    selectedCluster,    \* EmbeddingVisualization: useState<RelevanceType | null>
    last                \* the event handled last, with its inputs

ui == <<ankiFile, studyMaterial, processing, progress, error, success,
        estimatedTime, jobId, currentPhase, customTag, selectedModel,
        processingResults, showResults>>
vars == <<variant, ui, subs, pendingResets, mounted, selectedCluster, last>>


\* ------------------------------------------------- what the backend sends
\* Bodies of a non-2xx answer to the POST: the raw text and what JSON.parse
\* makes of it (Null: JSON.parse throws).
ErrorBodies ==
    { [raw |-> <<"{\"detail\": \"", "bad deck", "\"}">>,
       json |-> Some([error |-> Null, detail |-> Some(<<"bad deck">>)])],
      [raw |-> <<"{\"error\": \"", "no text in pdf", "\"}">>,
       json |-> Some([error |-> Some(<<"no text in pdf">>), detail |-> Null])],
      [raw |-> <<"{}">>,
       json |-> Some([error |-> Null, detail |-> Null])],
      [raw |-> <<"<html>502 Bad Gateway</html>">>,
       json |-> Null] }

NoBody == [raw |-> <<>>, json |-> Null]

\* Answers to POST /api/process-deck/.  net: "neterr" fetch rejects, "http"
\* response.ok is false, "badjson" response.json() rejects, "ok" a parsed body.
\* The ts variant never reads estimated_time and the js variant never reads
\* statistics or download_url, so those fields vary only where they are read.
PostResponses(v) ==
    { [net |-> "neterr", code |-> <<>>, body |-> NoBody, task_id |-> FALSE,
       statistics |-> FALSE, download_url |-> FALSE, estimated_time |-> Null],
      [net |-> "badjson", code |-> <<>>, body |-> NoBody, task_id |-> FALSE,
       statistics |-> FALSE, download_url |-> FALSE, estimated_time |-> Null] }
    \cup
    { [net |-> "http", code |-> <<"500">>, body |-> b, task_id |-> FALSE,
       statistics |-> FALSE, download_url |-> FALSE, estimated_time |-> Null]
      : b \in ErrorBodies }
    \cup
    { [net |-> "ok", code |-> <<"200">>, body |-> NoBody, task_id |-> t,
       statistics |-> st, download_url |-> d, estimated_time |-> e]
      : t \in BOOLEAN,
        st \in IF v = "ts" THEN BOOLEAN ELSE {FALSE},
        d \in IF v = "ts" THEN BOOLEAN ELSE {FALSE},
        e \in IF v = "js" THEN {Null, Some(60)} ELSE {Null} }

ErrorMessages == {Null, Some(<<"bad pdf">>), Some(<<>>)}

\* The progress part of a status answer: whether a progress object is there
\* (pd), and its progress, phase and estimated_time_remaining.  A sample that
\* takes every branch of the code that reads them, with a progress inside,
\* at the end of and beyond the range of a percentage.
ProgressParts ==
    { [pd |-> FALSE, progress |-> Null, phase |-> Null, eta |-> Null],
      [pd |-> TRUE, progress |-> Null, phase |-> Null, eta |-> Null],
      [pd |-> TRUE, progress |-> Some(Num(50)), phase |-> Some(<<"Embedding">>),
       eta |-> Some(Num(30))],
      [pd |-> TRUE, progress |-> Some(Num(100)), phase |-> Null, eta |-> Null],
      [pd |-> TRUE, progress |-> Some(Num(150)), phase |-> Null, eta |-> Null],
      [pd |-> TRUE, progress |-> Some(Str(<<"1", "0", "0">>)),
       phase |-> Some(<<"Embedding">>), eta |-> Some(Num(-1))] }

NoPoll == [net |-> "neterr", status |-> "", pd |-> FALSE, progress |-> Null,
           phase |-> Null, eta |-> Null, error_message |-> Null,
           statistics |-> FALSE, download_url |-> FALSE]

\* The status / error_message / statistics / download_url part of a status
\* answer: each field varies only under the status that makes the code read it.
StatusParts(v) ==
    { [status |-> "COMPLETED", error_message |-> Null, statistics |-> s, download_url |-> d]
      : s \in IF v = "ts" THEN BOOLEAN ELSE {FALSE},
        d \in IF v = "js" THEN BOOLEAN ELSE {FALSE} }
    \cup
    { [status |-> "FAILED", error_message |-> m, statistics |-> FALSE, download_url |-> FALSE]
      : m \in ErrorMessages }
    \cup
    { [status |-> "PROCESSING", error_message |-> Null, statistics |-> FALSE,
       download_url |-> FALSE] }

\* Answers to the status GET.  net: "neterr" fetch rejects, "badjson"
\* response.json() rejects, "notjson" the content-type is not JSON, "http"
\* response.ok is false (the last two are looked at by the js variant only),
\* "ok" a parsed body.  In the ts variant progress, phase and eta are the
\* fields of progress_data; in the js variant progress and phase are the
\* top-level progress and current_phase, and there is no eta.
PollResponses(v) ==
    { [NoPoll EXCEPT !.net = n]
      : n \in IF v = "ts" THEN {"neterr", "badjson"}
                          ELSE {"neterr", "badjson", "notjson", "http"} }
    \cup
    { [net |-> "ok", status |-> sp.status, pd |-> pp.pd, progress |-> pp.progress,
       phase |-> pp.phase, eta |-> IF v = "ts" THEN pp.eta ELSE Null,
       error_message |-> sp.error_message,
       statistics |-> sp.statistics, download_url |-> sp.download_url]
      : sp \in StatusParts(v),
        pp \in IF v = "ts" THEN ProgressParts ELSE {q \in ProgressParts : q.pd} }

\* ------------------------------------------------------------ the state
Init ==
    /\ variant \in Variants
    /\ ankiFile = Null
    /\ studyMaterial = Null
    /\ processing = FALSE
    /\ progress = Num(0)
    /\ error = Null
    /\ success = Null
    /\ estimatedTime = Null
    /\ jobId = Null
    /\ currentPhase = Null
    /\ customTag = <<>>
    /\ selectedModel = DefaultModel
    /\ processingResults = Null
    /\ showResults = FALSE
    /\ subs = <<>>
    /\ pendingResets = 0
    /\ mounted = TRUE
    /\ selectedCluster = Null
    /\ last = [op |-> "mount"]

\* The interval timers that are running, by submission.
ActiveTimers == {i \in 1..Len(subs) : subs[i].st = "polling"}

RECURSIVE SumInFlight(_)
SumInFlight(i) == IF i = 0 THEN 0 ELSE subs[i].inflight + SumInFlight(i - 1)
\* Status requests in flight, all submissions together.
TotalInFlight == SumInFlight(Len(subs))

\* POSTs in flight.
PostsInFlight == {i \in 1..Len(subs) : subs[i].st = "posting"}

\* renderResults renders the EmbeddingVisualization (ts).  Results that carry
\* statistics carry the visualizations as well.
ChartShown ==
    /\ variant = "ts"
    /\ mounted
    /\ showResults
    /\ processingResults # Null
    /\ Val(processingResults).statistics


\* --------------------------------------------------------- user handlers
\* resetState: every setter it calls (selectedModel, processing,
\* processingResults and showResults are not among them).
resetState ==
    /\ ankiFile' = Null
    /\ studyMaterial' = Null
    /\ progress' = Num(0)
    /\ error' = Null
    /\ success' = Null
    /\ estimatedTime' = Null
    /\ jobId' = Null
    /\ currentPhase' = Null
    /\ customTag' = <<>>

\* Accepts with includes() in the place of endsWith().
Accepts_Includes(slot, name) ==
    LET ext == IF slot = "anki" THEN ExtApkg ELSE ExtPdf
    IN  \E k \in 1..Len(name) :
          k + Len(ext) - 1 <= Len(name) /\ SubSeq(name, k, k + Len(ext) - 1) = ext

\* Whether handleFileUpload takes the file for the slot.
Accepts(slot, name) ==
    IF slot = "anki" THEN endsWith(name, ExtApkg) ELSE endsWith(name, ExtPdf)

\* onChange of a file input; f is event.target.files[0] (Null: none picked).
handleFileUpload(f, slot) ==
    /\ mounted
    /\ success' = Null
    /\ IF f = Null
       THEN /\ error' = Null
            /\ UNCHANGED <<ankiFile, studyMaterial, estimatedTime>>
       ELSE IF ~Accepts(slot, Val(f).name)
       THEN /\ error' = Some(IF slot = "anki" THEN MsgBadDeck ELSE MsgBadPdf)
            /\ UNCHANGED <<ankiFile, studyMaterial, estimatedTime>>
       ELSE /\ error' = Null
            /\ IF slot = "anki"
               THEN /\ ankiFile' = f
                    /\ estimatedTime' = IF variant = "js"
                                        THEN Some(EstimateSeconds(Val(f).size))
                                        ELSE estimatedTime
                    /\ UNCHANGED studyMaterial
               ELSE /\ studyMaterial' = f
                    /\ UNCHANGED <<ankiFile, estimatedTime>>
    /\ last' = [op |-> "upload", file |-> f, slot |-> slot]
    /\ UNCHANGED <<variant, mounted, selectedCluster, processing, progress, jobId, currentPhase, customTag,
                   selectedModel, processingResults, showResults, subs, pendingResets>>

\* onChange of the tag input; text is event.target.value.
handleTagChange(text) ==
    /\ mounted
    /\ customTag' = Sanitize(text)
    /\ last' = [op |-> "tag", text |-> text]
    /\ UNCHANGED <<variant, mounted, selectedCluster, ankiFile, studyMaterial, processing, progress, error,
                   success, estimatedTime, jobId, currentPhase, selectedModel,
                   processingResults, showResults, subs, pendingResets>>

\* onChange of the model select.
handleModelChange(m) ==
    /\ mounted
    /\ selectedModel' = m
    /\ last' = [op |-> "model", model |-> m]
    /\ UNCHANGED <<variant, mounted, selectedCluster, ankiFile, studyMaterial, processing, progress, error,
                   success, estimatedTime, jobId, currentPhase, customTag,
                   processingResults, showResults, subs, pendingResets>>

\* ValidationError without the test of the tag prefix.
ValidationError_NoTag ==
    IF ankiFile = Null \/ studyMaterial = Null THEN Some(MsgNeedFiles) ELSE Null

\* The validation error handleSubmit returns with, Null when the input passes.
ValidationError ==
    IF ankiFile = Null \/ studyMaterial = Null THEN Some(MsgNeedFiles)
    ELSE IF customTag = <<>> THEN Some(MsgNeedTag)
    ELSE Null

\* handleSubmit without its setSuccess(null).
handleSubmit_KeepsSuccess(cap) ==
    IF ValidationError # Null
    THEN /\ error' = ValidationError
         /\ last' = [op |-> "submit", sent |-> FALSE]
         /\ UNCHANGED <<variant, mounted, selectedCluster, ankiFile, studyMaterial, processing, progress,
                        success, estimatedTime, jobId, currentPhase, customTag,
                        selectedModel, processingResults, showResults, subs,
                        pendingResets>>
    ELSE /\ Len(subs) < cap
         /\ processing' = TRUE
         /\ progress' = Num(0)
         /\ error' = Null
         /\ success' = success
         /\ IF variant = "ts"
            THEN /\ currentPhase' = Some(PhaseInitializing)
                 /\ showResults' = FALSE
                 /\ processingResults' = Null
                 /\ estimatedTime' = Null
            ELSE /\ currentPhase' = Null
                 /\ UNCHANGED <<showResults, processingResults, estimatedTime>>
         /\ subs' = Append(subs, [st |-> "posting", data |-> Null, inflight |-> 0])
         /\ selectedCluster' = Null
         /\ last' = [op |-> "submit", sent |-> TRUE]
         /\ UNCHANGED <<variant, mounted, ankiFile, studyMaterial, jobId, customTag,
                        selectedModel, pendingResets>>

\* handleSubmit up to its first await: validation, the state it resets, and
\* the POST it issues (a new entry of subs; cap bounds their number).  With
\* showResults false the results view, and the chart in it, is gone.
handleSubmit(cap) ==
    IF ValidationError # Null
    THEN /\ error' = ValidationError
         /\ last' = [op |-> "submit", sent |-> FALSE]
         /\ UNCHANGED <<variant, mounted, selectedCluster, ankiFile, studyMaterial, processing, progress,
                        success, estimatedTime, jobId, currentPhase, customTag,
                        selectedModel, processingResults, showResults, subs,
                        pendingResets>>
    ELSE /\ Len(subs) < cap
         /\ processing' = TRUE
         /\ progress' = Num(0)
         /\ error' = Null
         /\ success' = Null
         /\ IF variant = "ts"
            THEN /\ currentPhase' = Some(PhaseInitializing)
                 /\ showResults' = FALSE
                 /\ processingResults' = Null
                 /\ estimatedTime' = Null
            ELSE /\ currentPhase' = Null
                 /\ UNCHANGED <<showResults, processingResults, estimatedTime>>
         /\ subs' = Append(subs, [st |-> "posting", data |-> Null, inflight |-> 0])
         /\ selectedCluster' = Null
         /\ last' = [op |-> "submit", sent |-> TRUE]
         /\ UNCHANGED <<variant, mounted, ankiFile, studyMaterial, jobId, customTag,
                        selectedModel, pendingResets>>

\* IsDownload without the test of showResults.
IsDownload_AnyResults ==
    /\ processingResults # Null
    /\ Val(processingResults).download_url

\* Whether the main button of the ts variant is the download button.
IsDownload ==
    /\ showResults
    /\ processingResults # Null
    /\ Val(processingResults).download_url

\* A click on the main button.  ts: disabled={processing}, handleButtonClick
\* downloads or submits.  js: disabled while processing or while an input is
\* missing, onClick={handleSubmit}.
ClickButton(cap) ==
    /\ mounted
    /\ IF variant = "ts"
       THEN /\ ~processing
            /\ IF IsDownload
               THEN /\ last' = [op |-> "download"]
                    /\ UNCHANGED <<variant, mounted, selectedCluster, ui, subs, pendingResets>>
               ELSE handleSubmit(cap)
       ELSE /\ ~(processing \/ ankiFile = Null \/ studyMaterial = Null \/ customTag = <<>>)
            /\ handleSubmit(cap)

\* "Process Another Deck", rendered by renderResults (ts) when the results show.
ProcessAnotherDeck ==
    /\ variant = "ts"
    /\ mounted
    /\ showResults
    /\ processingResults # Null
    /\ Val(processingResults).statistics
    /\ showResults' = FALSE
    /\ processingResults' = Null
    /\ resetState
    /\ selectedCluster' = Null
    /\ last' = [op |-> "another"]
    /\ UNCHANGED <<variant, mounted, processing, selectedModel, subs, pendingResets>>


\* ------------------------------------------------------ the submission
\* a || b on texts: null, undefined and "" are falsy.
OrElse(a, b) == IF a = Null \/ Val(a) = <<>> THEN b ELSE Val(a)

\* js, !response.ok: the Error built from the parsed body is thrown inside the
\* try whose catch (e) then throws `Server error: ${errorData}` in its place,
\* as it does when JSON.parse itself throws.
jsHttpError(body) ==
    LET thrownInTry ==
            IF body.json = Null THEN MsgJsonError
            ELSE OrElse(Val(body.json).error,
                        OrElse(Val(body.json).detail, MsgProcessingFailed))
        caught == thrownInTry = thrownInTry
    IN  IF caught THEN MsgServerError \o body.raw ELSE thrownInTry

\* The message of the Error that reaches handleSubmit's catch.
SubmitError(v, r) ==
    CASE r.net = "neterr" -> MsgFetchFailed
      [] r.net = "badjson" -> MsgJsonError
      [] r.net = "http" -> IF v = "ts" THEN MsgServerError \o r.code
                           ELSE jsHttpError(r.body)

\* The parsed body of a successful POST, as the interval callback's closure
\* and setProcessingResults(data) hold it.
PostData(i, r) ==
    [src |-> "post", sub |-> i, statistics |-> r.statistics,
     download_url |-> r.download_url]

\* The parsed body of a status answer, as setProcessingResults(data) holds it.
PollData(i, r) ==
    [src |-> "poll", sub |-> i, statistics |-> r.statistics,
     download_url |-> r.download_url]

\* handleSubmit from the POST's answer on: the catch, or setJobId and
\* setInterval.  The task id of submission i is i.
handlePostResponse(i, r) ==
    /\ IF r.net # "ok"
       THEN /\ error' = Some(SubmitError(variant, r))
            /\ processing' = FALSE
            /\ subs' = [subs EXCEPT ![i].st = "failed"]
            /\ UNCHANGED <<jobId, estimatedTime>>
       ELSE /\ jobId' = IF r.task_id THEN Some(i)
                        ELSE IF variant = "ts" THEN jobId ELSE Null
            /\ estimatedTime' = IF variant = "js" THEN r.estimated_time
                                ELSE estimatedTime
            /\ subs' = [subs EXCEPT ![i] = IF r.task_id
                                            THEN [@ EXCEPT !.st = "polling",
                                                           !.data = Some(PostData(i, r))]
                                            ELSE [@ EXCEPT !.st = "nojob"]]
            /\ UNCHANGED <<error, processing>>
    /\ last' = [op |-> "post", sub |-> i, r |-> r]
    /\ UNCHANGED <<variant, mounted, selectedCluster, ankiFile, studyMaterial, progress, success, currentPhase,
                   customTag, selectedModel, processingResults, showResults,
                   pendingResets>>

\* The answer to submission i's POST arrives.
PostResponse(i, answers) ==
    /\ i \in PostsInFlight
    /\ \E r \in PostResponses(variant) \cap answers : handlePostResponse(i, r)

\* -------------------------------------------------------- the polling
\* A tick of submission i's interval: the callback calls pollJobStatus, which
\* issues the status request.
Tick(i) ==
    /\ i \in ActiveTimers
    /\ TotalInFlight < MaxInFlight
    /\ subs' = [subs EXCEPT ![i].inflight = @ + 1]
    /\ last' = [op |-> "tick", sub |-> i]
    /\ UNCHANGED <<variant, mounted, selectedCluster, ui, pendingResets>>

\* Submission sub after one of its status requests was answered; clear says
\* whether the callback called clearInterval.  Once the interval is cleared and
\* no request is in flight nothing refers to the closure's data any more.
Answered(sub, clear) ==
    LET st == IF clear THEN "stopped" ELSE sub.st
        n == sub.inflight - 1
    IN  [st |-> st, inflight |-> n,
         data |-> IF st = "stopped" /\ n = 0 THEN Null ELSE sub.data]

\* What "last" keeps of a status answer: the answer, and what pollJobStatus
\* returned.
PollEvent(i, r, done) == [op |-> "poll", sub |-> i, r |-> r, done |-> done]

\* ts: data.progress_data.progress === 100 (strict: the number 100 only)
ProgressIs100(r) == r.pd /\ r.progress = Some(Num(100))

\* ts: the branch of pollJobStatus that reports completion.
tsCompleted(r) == r.status = "COMPLETED" \/ ProgressIs100(r)

\* tsFailed comparing the status with "failed".
tsFailed_WrongCase(r) == ~tsCompleted(r) /\ r.status = "failed"

\* ts: the branch of pollJobStatus that reports failure.
tsFailed(r) == ~tsCompleted(r) /\ r.status = "FAILED"

\* ts: what pollJobStatus returns (its catch returns false).
tsPollDone(r) == r.net = "ok" /\ (tsCompleted(r) \/ tsFailed(r))

\* ts: the interval callback from the status answer on: pollJobStatus after its
\* awaits (inPoll: the results as its setProcessingResults leaves them), then
\* clearInterval and setProcessingResults(data) with the POST's data when
\* pollJobStatus returned true.  One step: the continuation runs in microtasks,
\* before any timer or event.  The chart keeps its state while the results the
\* view is left with still render it (chartShown: ChartShown afterwards).
tsPollResponse(i, r) ==
    /\ IF r.net = "ok" /\ r.pd
       THEN /\ progress' = Num(parseFloat(OrZero(r.progress)))
            /\ currentPhase' = IF r.phase # Null /\ Val(r.phase) # <<>>
                               THEN r.phase ELSE currentPhase
            /\ estimatedTime' = IF parseFloat(OrZero(r.eta)) >= 0
                                THEN Some(parseFloat(OrZero(r.eta)))
                                ELSE estimatedTime
       ELSE UNCHANGED <<progress, currentPhase, estimatedTime>>
    /\ IF r.net = "ok" /\ tsCompleted(r)
       THEN /\ success' = Some(MsgSuccess)
            /\ processing' = FALSE
            /\ showResults' = TRUE
            /\ UNCHANGED error
       ELSE IF r.net = "ok" /\ tsFailed(r)
       THEN /\ error' = Some(OrElse(r.error_message, MsgProcessingFailed))
            /\ processing' = FALSE
            /\ UNCHANGED <<success, showResults>>
       ELSE UNCHANGED <<success, processing, showResults, error>>
    /\ LET inPoll == IF r.net = "ok" /\ tsCompleted(r) /\ r.statistics
                      THEN Some(PollData(i, r)) ELSE processingResults
       IN  IF tsPollDone(r)
           THEN /\ subs' = [subs EXCEPT ![i] = Answered(@, TRUE)]
                /\ processingResults' = subs[i].data
           ELSE /\ subs' = [subs EXCEPT ![i] = Answered(@, FALSE)]
                /\ processingResults' = inPoll
    /\ LET chartShown == /\ variant = "ts" /\ mounted
                          /\ showResults'
                          /\ processingResults' # Null
                          /\ Val(processingResults').statistics
       IN  selectedCluster' = IF chartShown THEN selectedCluster ELSE Null
    /\ last' = PollEvent(i, r, tsPollDone(r))
    /\ UNCHANGED <<variant, mounted, ankiFile, studyMaterial, jobId, customTag, selectedModel,
                   pendingResets>>

\* js: the Error pollJobStatus throws into its own catch, Null when none.
jsPollThrown(r) ==
    CASE r.net = "neterr" -> Some(MsgFetchFailed)
      [] r.net = "notjson" -> Some(MsgNotJson)
      [] r.net = "http" -> Some(MsgStatusFailed)
      [] r.net = "badjson" -> Some(MsgJsonError)
      [] r.net = "ok" /\ r.status = "FAILED" /\ r.status # "COMPLETED" ->
            Some(OrElse(r.error_message, MsgProcessingFailed))
      [] OTHER -> Null

\* js: what pollJobStatus returns (its catch returns true).
jsPollDone(r) == jsPollThrown(r) # Null \/ r.status = "COMPLETED"

\* js: the interval callback from the status answer on.
jsPollResponse(i, r) ==
    /\ IF r.net = "ok"
       THEN /\ progress' = OrZero(r.progress)
            /\ currentPhase' = IF r.phase # Null /\ Val(r.phase) # <<>>
                               THEN r.phase ELSE Null
       ELSE UNCHANGED <<progress, currentPhase>>
    /\ IF r.net = "ok" /\ r.status = "COMPLETED"
       THEN /\ success' = Some(MsgSuccess)
            /\ processing' = FALSE
            /\ pendingResets' = pendingResets + 1
            /\ UNCHANGED error
       ELSE IF jsPollThrown(r) # Null
       THEN /\ error' = Some(OrElse(jsPollThrown(r), <<"Error checking job status">>))
            /\ processing' = FALSE
            /\ UNCHANGED <<success, pendingResets>>
       ELSE UNCHANGED <<success, processing, pendingResets, error>>
    /\ subs' = [subs EXCEPT ![i] = Answered(@, jsPollDone(r))]
    /\ last' = PollEvent(i, r, jsPollDone(r))
    /\ UNCHANGED <<variant, mounted, selectedCluster, ankiFile, studyMaterial, estimatedTime, jobId, customTag,
                   selectedModel, processingResults, showResults>>

\* The answer r to one of submission i's status requests arrives.
PollResponse(i, answers) ==
    /\ i \in 1..Len(subs)
    /\ subs[i].inflight > 0
    /\ \E r \in PollResponses(variant) \cap answers :
          IF variant = "ts" THEN tsPollResponse(i, r) ELSE jsPollResponse(i, r)

\* js: a setTimeout(resetState, 3000) scheduled by a completion runs.
ResetTimeout ==
    /\ pendingResets > 0
    /\ pendingResets' = pendingResets - 1
    /\ resetState
    /\ last' = [op |-> "resetTimeout"]
    /\ UNCHANGED <<variant, mounted, selectedCluster, processing, selectedModel, processingResults, showResults,
                   subs>>

\* ------------------------------------------------------------ the chart
\* toggleCluster that selects and never clears.
toggleCluster_NoClear(curr, value) == Some(value)

\* The updater of the Legend's onClick: curr === value ? null : value
toggleCluster(curr, value) == IF curr = Some(value) THEN Null ELSE Some(value)

\* Legend onClick; name is e.value, the name of the entry's series.
LegendClick(name) ==
    /\ ChartShown
    /\ selectedCluster' = toggleCluster(selectedCluster, toLowerCase(name))
    /\ last' = [op |-> "legend", value |-> name]
    /\ UNCHANGED <<variant, mounted, ui, subs, pendingResets>>

\* onClick of a card band's Scatter: setSelectedCluster(isSelected ? null : relevance)
ScatterClick(relevance) ==
    /\ ChartShown
    /\ selectedCluster' = IF selectedCluster = Some(relevance) THEN Null
                          ELSE Some(relevance)
    /\ last' = [op |-> "scatter", relevance |-> relevance]
    /\ UNCHANGED <<variant, mounted, ui, subs, pendingResets>>

\* The opacity prop of a band's Scatter, in tenths:
\* selectedCluster ? (selectedCluster === relevance ? 1 : 0.3) : 1
Opacity(relevance) ==
    IF selectedCluster # Null
    THEN (IF selectedCluster = Some(relevance) THEN 10 ELSE 3)
    ELSE 10

\* ---------------------------------------------------------- the unmount
\* React unmounts the view.  No effect of the component clears an interval, and
\* the cleanup function handleSubmit returns is the value of the promise of an
\* event handler, which nothing calls: timers, requests in flight and pending
\* timeouts stay as they are.  From here on the state variables record what
\* the setters are called with.
Unmount ==
    /\ mounted
    /\ mounted' = FALSE
    /\ selectedCluster' = Null
    /\ last' = [op |-> "unmount"]
    /\ UNCHANGED <<variant, ui, subs, pendingResets>>

\* Every event of the program, with the inputs drawn from the sets of `in`:
\* uploads (file and slot), tags and models the user may choose, posts and polls
\* the backend may answer, and subs, the number of submissions.
Step(in) ==
    \/ \E u \in in.uploads : handleFileUpload(u[1], u[2])
    \/ \E text \in in.tags : handleTagChange(text)
    \/ \E m \in in.models : handleModelChange(m)
    \/ ClickButton(in.subs)
    \/ ProcessAnotherDeck
    \/ \E i \in 1..in.subs : PostResponse(i, in.posts)
    \/ \E i \in 1..in.subs : Tick(i)
    \/ \E i \in 1..in.subs : PollResponse(i, in.polls)
    \/ ResetTimeout

AllPosts == PostResponses("ts") \cup PostResponses("js")
AllPolls == PollResponses("ts") \cup PollResponses("js")

\* Every input of the model, one submission.
AllInputs ==
    [uploads |-> ({Null} \cup {Some(f) : f \in Files}) \X Slots, tags |-> TagInputs, models |-> embeddingModels,
     posts |-> AllPosts, polls |-> AllPolls, subs |-> MaxSubmits]

\* The user picks the two well-named files, types one tag and keeps the default
\* model; the backend answers anything.
FlowInputs ==
    [uploads |-> {u \in {Some(f) : f \in Files} \X Slots : Accepts(u[2], Val(u[1]).name)},
     tags |-> {<<"M", "y", " ", "T", "a", "g", "!">>},
     models |-> {DefaultModel},
     posts |-> AllPosts, polls |-> AllPolls, subs |-> MaxFlowSubmits]

\* As FlowInputs, and the backend accepts every submission and reports every
\* job completed, without a progress object.
RaceInputs ==
    [FlowInputs EXCEPT
        !.posts = {r \in AllPosts : r.net = "ok" /\ r.task_id /\ ~r.download_url
                                    /\ r.estimated_time = Null},
        !.polls = {r \in AllPolls : r.net = "ok" /\ r.status \in {"COMPLETED", "PROCESSING"}
                                    /\ r.progress = Null /\ ~r.statistics /\ ~r.download_url},
        !.subs = MaxRaceSubmits]

\* As FlowInputs, MaxViewSubmits submissions.
ViewInputs == [FlowInputs EXCEPT !.subs = MaxViewSubmits]

Next == Step(AllInputs)
FlowNext == Step(FlowInputs)
RaceNext == Step(RaceInputs)
ViewNext ==
    \/ Step(ViewInputs)
    \/ Unmount
    \/ \E r \in RelevanceTypes : LegendClick(SeriesName(r))
    \/ \E relevance \in CardBands : ScatterClick(relevance)

\* As FlowInputs, MaxLiveSubmits submissions.
LiveInputs == [FlowInputs EXCEPT !.subs = MaxLiveSubmits]
LiveNext == Step(LiveInputs)

\* The status answers in which the backend reports the job completed or failed.
TerminalPolls == {r \in AllPolls : r.net = "ok" /\ r.status \in {"COMPLETED", "FAILED"}}

\* A running interval keeps firing (setInterval), every status request is
\* answered in the end, and a backend that is asked again and again reports
\* the job completed or failed in the end.
Fairness ==
    \A i \in 1..MaxLiveSubmits :
        /\ WF_vars(Tick(i))
        /\ WF_vars(PollResponse(i, AllPolls))
        /\ SF_vars(PollResponse(i, TerminalPolls))

Spec == Init /\ [][Next]_vars
FlowSpec == Init /\ [][FlowNext]_vars
RaceSpec == Init /\ [][RaceNext]_vars
ViewSpec == Init /\ [][ViewNext]_vars
LiveSpec == Init /\ [][LiveNext]_vars /\ Fairness


\* ================================================================ claims
Alnum == Lower \cup Upper \cup Digit

\* name ends with ext: name is some prefix of itself followed by ext.
EndsIn(name, ext) == \E k \in 0..Len(name) : name = SubSeq(name, 1, k) \o ext

\* The status answer reports progress 100.
Reports100(r) == r.progress = Some(Num(100))

\* The status answer reports a terminal outcome.
ReportsTerminal(r) ==
    r.net = "ok" /\ (r.status \in {"COMPLETED", "FAILED"} \/ Reports100(r))

\* C1: once a status answer reporting COMPLETED, progress 100 or FAILED has been
\* handled for a job, that job's interval timer is cleared, so that no later
\* tick issues a status request for it.
C1_TimerClearedOnTerminal ==
    (last.op = "poll" /\ ReportsTerminal(last.r)) => last.sub \notin ActiveTimers

\* C2: a status answer with status COMPLETED or with progress 100 completes the
\* flow (processing false, success message set, pollJobStatus reports done);
\* an answer with neither and without status FAILED leaves it polling.
C2_EitherSignalCompletes ==
    (last.op = "poll" /\ last.r.net = "ok") =>
        IF last.r.status = "COMPLETED" \/ Reports100(last.r)
        THEN ~processing /\ success = Some(MsgSuccess) /\ last.done
        ELSE last.r.status # "FAILED" => ~last.done

\* C3: a status answer with status FAILED fails the flow: the error shown is
\* its error_message, or "Processing failed" when it has none, processing is
\* false and the interval is cleared.
C3_FailedShowsMessage ==
    (last.op = "poll" /\ last.r.net = "ok" /\ last.r.status = "FAILED") =>
        /\ error = Some(IF last.r.error_message \in {Null, Some(<<>>)}
                        THEN <<"Processing failed">>
                        ELSE Val(last.r.error_message))
        /\ ~processing
        /\ last.sub \notin ActiveTimers

\* C4: at most one polling interval timer is active in any reachable state.
C4_AtMostOneTimer == Cardinality(ActiveTimers) <= 1

\* C5: a submit attempt with a file missing or an empty tag prefix issues no
\* request, shows a validation error and leaves processing, progress, job id
\* and results as they were.
C5_InvalidSubmitSendsNothing ==
    [][(last'.op = "submit"
        /\ (ankiFile = Null \/ studyMaterial = Null \/ customTag = <<>>))
       => /\ subs' = subs
          /\ error' \in {Some(MsgNeedFiles), Some(MsgNeedTag)}
          /\ processing' = processing
          /\ progress' = progress
          /\ jobId' = jobId
          /\ processingResults' = processingResults]_vars

\* C5 witness: a click with both files chosen and no tag was rejected.
C5_Witness ==
    /\ last = [op |-> "submit", sent |-> FALSE]
    /\ ankiFile # Null /\ studyMaterial # Null /\ customTag = <<>>
    /\ error = Some(MsgNeedTag)
    /\ subs = <<>>

\* C6: handleFileUpload stores the file in its slot exactly when the name ends
\* with the slot's extension; then the error is cleared and the other slot
\* keeps its file.  Otherwise an error is set and both slots keep their files.
C6_UploadIffExtension ==
    [][(last'.op = "upload" /\ last'.file # Null) =>
        LET f == last'.file
            isDeck == last'.slot = "anki"
        IN  IF EndsIn(Val(f).name, IF isDeck THEN ExtApkg ELSE ExtPdf)
            THEN /\ error' = Null
                 /\ ankiFile' = IF isDeck THEN f ELSE ankiFile
                 /\ studyMaterial' = IF isDeck THEN studyMaterial ELSE f
            ELSE /\ error' # Null
                 /\ ankiFile' = ankiFile
                 /\ studyMaterial' = studyMaterial]_vars

\* C6 witness: with a deck chosen, a file of another extension was offered to
\* the deck slot and refused, and the study slot is still empty.
C6_Witness ==
    /\ last.op = "upload" /\ last.slot = "anki"
    /\ last.file # Null /\ ~EndsIn(Val(last.file).name, ExtApkg)
    /\ ankiFile # Null /\ ankiFile # last.file
    /\ studyMaterial = Null
    /\ error = Some(MsgBadDeck)

\* C7: the stored tag prefix holds only ASCII letters, digits and underscores;
\* a tag edit stores the input with every other code unit replaced by one
\* underscore and the letters and digits kept in place.
C7_TagSanitized ==
    /\ \A i \in 1..Len(customTag) : customTag[i] \in Alnum \cup {"_"}
    /\ last.op = "tag" =>
         /\ Len(customTag) = Len(last.text)
         /\ \A i \in 1..Len(last.text) :
              customTag[i] = IF last.text[i] \in Alnum THEN last.text[i] ELSE "_"
         /\ last.text = <<"M", "y", " ", "T", "a", "g", "!">>
              => customTag = <<"M", "y", "_", "T", "a", "g", "_">>

\* C7 witness: "My Tag!" was typed and "My_Tag_" is stored.
C7_Witness ==
    /\ last = [op |-> "tag", text |-> <<"M", "y", " ", "T", "a", "g", "!">>]
    /\ customTag = <<"M", "y", "_", "T", "a", "g", "_">>

\* C8: after "Process Another Deck" every piece of selection, form, progress
\* and result state has its value at mount, the model included.
C8_ResetRestoresMount ==
    last.op = "another" =>
        /\ ankiFile = Null /\ studyMaterial = Null
        /\ customTag = <<>>
        /\ selectedModel = DefaultModel
        /\ progress = Num(0)
        /\ currentPhase = Null /\ estimatedTime = Null /\ jobId = Null
        /\ error = Null /\ success = Null
        /\ processingResults = Null /\ ~showResults

\* C9: the results held are the data of a status answer that reported
\* completion, and none are held after an answer that reported failure.
C9_ResultsFromCompletion ==
    /\ processingResults # Null => Val(processingResults).src = "poll"
    /\ (last.op = "poll" /\ last.r.net = "ok" /\ last.r.status = "FAILED"
        /\ ~Reports100(last.r)) => processingResults = Null

\* text carries the fragment d.
Carries(text, d) == \E k \in 1..Len(text) : text[k] = d[1]

\* C10: after a non-2xx answer to the POST processing is false, no timer was
\* started, and the error carries the body's error/detail text when the body
\* parses and is a generic server-error message when it does not.
C10_SubmitErrorDetail ==
    (last.op = "post" /\ last.r.net = "http") =>
        /\ ~processing
        /\ last.sub \notin ActiveTimers
        /\ error # Null
        /\ LET json == last.r.body.json
           IN  IF json = Null THEN Val(error)[1] = "Server error: "
               ELSE /\ Val(json).error # Null => Carries(Val(error), Val(Val(json).error))
                    /\ Val(json).detail # Null => Carries(Val(error), Val(Val(json).detail))

\* A status request met a transport-level failure: the fetch rejected, or the
\* answer was not JSON or did not parse.
TransportFailure(r) == r.net \in {"neterr", "badjson", "notjson"}

\* C11: a transport-level failure of one status request is a skipped tick: its
\* handling leaves the error and processing as they were and does not clear the
\* job's interval timer, so that the next tick asks again.
C11_TransportFailureSkipsTick ==
    [][(last'.op = "poll" /\ TransportFailure(last'.r)) =>
        /\ error' = error
        /\ processing' = processing
        /\ last'.sub \in ActiveTimers => last'.sub \in ActiveTimers']_vars

\* Job i is the job of the latest submission, it was reported completed or
\* failed (its interval is cleared), and the user has neither submitted again
\* nor reset since.
Settled(i) ==
    /\ i = Len(subs)
    /\ subs[i].st = "stopped"
    /\ jobId = Some(i)

\* C12: once the job is completed or failed it stays so: a status answer that
\* arrives afterwards, such as the answer to a request that was in flight,
\* changes none of processing, progress, phase, time estimate, error, success
\* and results.
C12_SettledJobIgnoresAnswers ==
    [][(last'.op = "poll" /\ Settled(last'.sub)) =>
        UNCHANGED <<processing, progress, currentPhase, estimatedTime, error,
                    success, processingResults>>]_vars

\* The latest submission was answered without a job identifier.
Stalled == Len(subs) > 0 /\ subs[Len(subs)].st = "nojob"

\* C13: a successful answer to the POST that carries no job identifier leaves
\* the flow stalled: processing stays true, no timer is started for the
\* submission and the answer sets no error; and from then on no event ends the
\* stall (processing stays true and no further submission is made).
C13_NoJobIdStalls ==
    [][/\ (last'.op = "post" /\ last'.r.net = "ok" /\ ~last'.r.task_id) =>
            /\ processing'
            /\ error' = error
            /\ last'.sub \notin ActiveTimers'
       /\ (Stalled /\ processing) => (Stalled' /\ processing')]_vars

\* C14: while a submission POST or a status GET is in flight processing is
\* true, which disables the submit button.
C14_BusyWhileRequestInFlight ==
    (PostsInFlight # {} \/ TotalInFlight > 0) => processing

C16_TornDownOnUnmount ==
    [][/\ (last'.op = "poll" /\ last'.done) => last'.sub \notin ActiveTimers'
       /\ last'.op = "unmount" => ActiveTimers' = {}
       /\ ~mounted => (last'.op # "tick" /\ TotalInFlight' <= TotalInFlight)]_vars

\* C18: in every reachable state the success message is absent while
\* processing is true.
C18_NoSuccessWhileProcessing == success # Null => ~processing

\* C18 witness: the success message of an earlier job is set while the POST of
\* a later submission is in flight (its late status answer has arrived in
\* between), and processing is false.
C18_Witness ==
    /\ last.op = "poll" /\ last.sub = 1
    /\ success = Some(MsgSuccess)
    /\ PostsInFlight = {2}
    /\ ~processing

\* C19: in App.tsx a click on the main button while the results are shown and
\* a download_url is held downloads and starts no submission (no state
\* changes); a click in any other state runs handleSubmit: it either sets a
\* validation error or issues one POST.
C19_DownloadOrSubmit ==
    [][(variant = "ts" /\ last'.op \in {"download", "submit"}) =>
        IF showResults /\ processingResults # Null /\ Val(processingResults).download_url
        THEN /\ last'.op = "download"
             /\ UNCHANGED <<ui, subs>>
        ELSE /\ last'.op = "submit"
             /\ IF ankiFile = Null \/ studyMaterial = Null \/ customTag = <<>>
                THEN ~last'.sent /\ subs' = subs /\ error' # Null
                ELSE last'.sent /\ Len(subs') = Len(subs) + 1 /\ processing']_vars

\* C19 witness: the download button was clicked: the results are shown with a
\* download_url, and the one submission made is still the only one.
C19_Witness ==
    /\ variant = "ts"
    /\ last.op = "download"
    /\ showResults /\ processingResults # Null /\ Val(processingResults).download_url
    /\ Len(subs) = 1 /\ PostsInFlight = {}

\* C20: a click on a legend entry toggles the highlight.  On a band that is
\* not selected it makes that band the only selected one, drawn at full
\* opacity with every other series dimmed; on the selected band it clears the
\* selection and every series is drawn at full opacity.  At most one band is
\* selected at any time.
C20_LegendTogglesHighlight ==
    [][/\ Cardinality(selectedCluster') <= 1
       /\ last'.op = "legend" =>
            \E band \in RelevanceTypes :
               /\ last'.value = SeriesName(band)
               /\ IF selectedCluster = Some(band)
                  THEN /\ selectedCluster' = Null
                       /\ \A r \in RelevanceTypes : Opacity(r)' = 10
                  ELSE /\ selectedCluster' = Some(band)
                       /\ Opacity(band)' = 10
                       /\ \A r \in RelevanceTypes \ {band} : Opacity(r)' = 3]_vars

\* C20 witness: a click on a legend entry has cleared the selection: the chart
\* is shown, nothing is selected and every series is at full opacity.
C20_Witness ==
    /\ last.op = "legend"
    /\ ChartShown
    /\ selectedCluster = Null
    /\ \A r \in RelevanceTypes : Opacity(r) = 10

\* C21: in every reachable state the stored progress is a percentage: its
\* value lies between 0 and 100, whatever the status answers carry.
C21_ProgressInRange == parseFloat(progress) \in 0..100

\* C22: a status answer for an earlier job does not touch a later submission:
\* once the user has submitted again, the answer to a status request of the
\* previous job changes none of processing, progress, phase, error, success,
\* the results and the results-shown flag.
C22_EarlierJobAnswerIgnored ==
    [][(last'.op = "poll" /\ last'.sub < Len(subs)) =>
        UNCHANGED <<processing, progress, currentPhase, error, success,
                    processingResults, showResults>>]_vars

\* C23: when every status request is answered in the end and the backend
\* reports the job completed or failed in the end, a submission that started
\* polling leads to a terminal state: processing is false and the job's
\* interval timer is cleared.
C23_PollingTerminates ==
    \A i \in 1..MaxLiveSubmits :
        (i \in ActiveTimers) ~> (~processing /\ i \notin ActiveTimers /\ i <= Len(subs))

\* C23 witness: the backend has reported the job completed or failed; the
\* interval is cleared, no request is in flight and processing is false.
C23_Witness ==
    /\ last.op = "poll" /\ last.r \in TerminalPolls /\ last.done
    /\ subs[last.sub].st = "stopped"
    /\ TotalInFlight = 0
    /\ ~processing

\* C24: in part_001, whenever processing is true the deck, the study material
\* and the tag prefix are still there, and the resetState scheduled by a
\* completion does not run while a submission is under way.
C24_ResetNotDuringSubmission ==
    [][variant = "js" =>
        /\ processing' =>
              (ankiFile' # Null /\ studyMaterial' # Null /\ customTag' # <<>>)
        /\ last'.op = "resetTimeout" => ~processing]_vars

\* C25: in every reachable state the error message and the success message
\* are not both present.
C25_ErrorXorSuccess == ~(error # Null /\ success # Null)

====
